---- MODULE Spec2Model ----
(***************************************************************************)
(* A model of tensorflow/compiler/xla/python/shared_device_buffer.cc:      *)
(* BufferDefinitionEvent (the completion event), SharedDeviceBuffer (the   *)
(* hold / usage-event protocol, external references, destruction) and      *)
(* SharedDeviceBuffer::ScopedUsage (the scoped usage guard).               *)
(*                                                                         *)
(* One buffer is modelled, shared by host threads.  Every method runs      *)
(* under its object's mutex, so a method that does not wait is one atomic  *)
(* action.  A method that calls Mutex::Await runs to its end in one action *)
(* when the condition holds at the call (Await then keeps the mutex), and  *)
(* otherwise blocks: the call action adds the call to `pending`, and the   *)
(* wake action runs the code after the Await once the condition holds.     *)
(* A failed CHECK terminates the process: it is recorded in `fatal`, the   *)
(* state is left as the failing method found it or had made it, and no     *)
(* action is enabled afterwards.                                           *)
(***************************************************************************)
EXTENDS Integers, Sequences, FiniteSets, Bags, TLC

\* ------------------------------------------------------------------ bounds
MaxSeq == 2
NumThreads == 2
NumGuards == 1
MaxAdds == 3
MaxExternal == 1
NumRegions == 2
MaxRefs == 2
MaxDefs == 2
MaxSlots == 2

\* The identities of the execution streams and of the completion events.
Streams == {"s1", "s2"}
Events == {"e1", "e2"}
SeqNums == 1..MaxSeq
Guards == 1..NumGuards
Regions == 1..NumRegions
\* se::DeviceMemoryBase(): the null region.
NullRegion == 0

\* An EventPool::Handle: whether it holds an event, and its sequence number.
NullHandle == [event |-> FALSE, sequence_number |-> 0]
Handle(seq) == [event |-> TRUE, sequence_number |-> seq]
NoFatal == "none"

VARIABLES
    \* BufferDefinitionEvent, one instance per element of Events
    event_,               \* the EventPool::Handle
    streams_defined_on_,  \* the vector of streams, in push_back order
    then_wait_for,        \* per event, the streams ThenWaitFor was issued on
    record_stream,        \* history: the stream given to SetDefinitionEvent
    \* SharedDeviceBuffer
    allocator_,           \* whether the buffer has an allocator
    on_delete_callback_,  \* whether a delete callback was given
    device_memory_,       \* the ordered memory regions
    definition_events_,   \* the ordered definition events (with repetitions)
    threads,              \* the number of host threads that use the buffer
    in_use_,
    usage_holds_,
    external_references_,
    usage_events_,        \* vector of [stream, event, reference_held]
    \* shared ownership and destruction
    owners,               \* shared_ptr references held by callers
    destroyed,            \* ~SharedDeviceBuffer has run
    deallocated,          \* the regions given to Deallocate, in call order
    callback_runs,        \* how often on_delete_callback_ ran
    \* ScopedUsage, one instance per element of Guards
    parent_,              \* whether the guard's parent_ is the buffer (or null)
    guard_alive,          \* the guard object has not been destructed
    \* shaped buffers: the source of FromScopedShapedBuffer, the result of
    \* AsShapedBuffer
    shaped_buffer,        \* the ScopedShapedBuffer given, or NoShaped
    source_regions,       \* history: its regions before the extraction
    exported,             \* the ShapedBuffer returned, or NoShaped
    \* host threads
    waiter,               \* the thread inside WaitForBufferDefinitionEventsOnStream
    pending,              \* the bag of calls blocked in an Await, one per thread
    returned,             \* the call that returned a value in the step just
                          \* taken, with the value
    \* process and history
    fatal,                \* NoFatal, or the CHECK that terminated the process
    n_add,                \* history: AddUsageHold calls that passed their CHECK
    n_drop,               \* history: DropUsageHold calls that passed their CHECKs
    n_convert,            \* history: ConvertUsageHold calls whose buffer was in
                          \* use and held (the CHECKs of line 237-238)
    conv_hist             \* history: per stream, the completed ConvertUsageHold
                          \* calls

eventVars == <<event_, streams_defined_on_, then_wait_for, record_stream>>
constVars == <<allocator_, on_delete_callback_, device_memory_,
               definition_events_, threads>>
shapedVars == <<shaped_buffer, source_regions, exported>>
bufVars == <<in_use_, usage_holds_, external_references_, usage_events_>>
lifeVars == <<owners, destroyed, deallocated, callback_runs>>
guardVars == <<parent_, guard_alive>>
histVars == <<n_add, n_drop, n_convert, conv_hist>>
vars == <<eventVars, constVars, shapedVars, bufVars, lifeVars, guardVars,
          waiter, pending, returned, fatal, histVars>>

None == "none"
Call(op, event, stream) == [op |-> op, event |-> event, stream |-> stream]
NoConversions ==
    [s \in Streams |-> [events |-> {}, last |-> None]]
NoRet == [op |-> None, event |-> None, stream |-> None, awaited |-> FALSE,
          val |-> <<>>]

\* The process runs: no CHECK has failed.
Running == fatal = NoFatal

\* Number of shared_ptr references to the buffer: callers' plus guards'.
RefCount == owners + Cardinality({g \in Guards : parent_[g]})

\* A caller can reach the buffer through a reference it holds.
Reachable == ~destroyed /\ owners > 0

\* No call of WaitForBufferDefinitionEventsOnStream is under way.
NoWaiter == [active |-> FALSE, stream |-> None, events |-> {},
             blocked_on |-> None, awaited |-> FALSE, called |-> <<>>]

\* No shaped buffer.
NoShaped == [subshapes |-> 0, buffers |-> <<>>]

\* A thread is free to make a call: not all of them are inside one.
SomeIdle ==
    BagCardinality(pending) + (IF waiter.active THEN 1 ELSE 0) < threads

\* A thread enters an Await whose condition is false: it releases the mutex
\* and blocks inside the call.
Block(call) ==
    /\ pending' = pending (+) SetToBag({call})
    /\ returned' = NoRet

\* A blocked thread leaves its call.
Unblock(call) == pending' = pending (-) SetToBag({call})

\* The call returns `val`; `awaited` tells whether it had blocked.
Return(call, awaited, val) ==
    returned' = [op |-> call.op, event |-> call.event, stream |-> call.stream,
                 awaited |-> awaited, val |-> val]

\* ------------------------------------------------- BufferDefinitionEvent

\* Line 41-43.
EventHasBeenRecorded(e) == event_[e].event

\* Handle::sequence_number of a recorded event.
HandleSequenceNumber(e) == event_[e].sequence_number

InVector(s, v) == \E i \in 1..Len(v) : v[i] = s

\* Fault variant of SetDefinitionEventResult: the CHECK of line 35 is
\* missing, so a second call overwrites the record.
SetDefinitionEventResult_Overwrites(e, seq, stream) ==
    IF streams_defined_on_[e] # <<>>
      THEN [fatal |-> "SetDefinitionEvent: CHECK(streams_defined_on_.empty())",
            event |-> Handle(seq), streams |-> streams_defined_on_[e]]
      ELSE [fatal |-> NoFatal, event |-> Handle(seq),
            streams |-> Append(streams_defined_on_[e], stream)]

\* Line 32-39: the state SetDefinitionEvent leaves, given a handle that
\* carries sequence number `seq`.
SetDefinitionEventResult(e, seq, stream) ==
    IF event_[e].event
      THEN [fatal |-> "SetDefinitionEvent: CHECK(!event_.event())",
            event |-> event_[e], streams |-> streams_defined_on_[e]]
    ELSE IF streams_defined_on_[e] # <<>>
      THEN [fatal |-> "SetDefinitionEvent: CHECK(streams_defined_on_.empty())",
            event |-> Handle(seq), streams |-> streams_defined_on_[e]]
      ELSE [fatal |-> NoFatal, event |-> Handle(seq),
            streams |-> Append(streams_defined_on_[e], stream)]

\* Line 32-39.
SetDefinitionEvent(e, seq, stream) ==
    /\ Running /\ SomeIdle
    /\ LET r == SetDefinitionEventResult(e, seq, stream)
       IN /\ fatal' = r.fatal
          /\ event_' = [event_ EXCEPT ![e] = r.event]
          /\ streams_defined_on_' = [streams_defined_on_ EXCEPT ![e] = r.streams]
          /\ record_stream' = IF r.fatal = NoFatal
                                THEN [record_stream EXCEPT ![e] = stream]
                                ELSE record_stream
    /\ returned' = NoRet
    /\ UNCHANGED <<then_wait_for, constVars, shapedVars, waiter, bufVars, lifeVars, guardVars,
                   pending, histVars>>

\* Fault variant of sequence_numberResult: the CHECK of line 47 is missing.
sequence_numberResult_Unchecked(e) ==
    [fatal |-> NoFatal, value |-> HandleSequenceNumber(e)]

\* Line 45-49: what sequence_number() does: the failed CHECK if any, and
\* the value returned.
sequence_numberResult(e) ==
    IF ~EventHasBeenRecorded(e)
      THEN [fatal |-> "sequence_number: CHECK(EventHasBeenRecorded())", value |-> 0]
      ELSE [fatal |-> NoFatal, value |-> HandleSequenceNumber(e)]

\* Line 45-49, called by a host thread.
sequence_number(e) ==
    /\ Running /\ SomeIdle
    /\ fatal' = sequence_numberResult(e).fatal
    /\ IF sequence_numberResult(e).fatal # NoFatal
         THEN returned' = NoRet
         ELSE Return(Call("sequence_number", e, None), FALSE,
                     <<sequence_numberResult(e).value>>)
    /\ UNCHANGED <<eventVars, constVars, shapedVars, waiter, bufVars, lifeVars, guardVars, pending,
                   histVars>>

\* Fault variant of WaitForEventOnStream_Rest: the search of line 61-65 is
\* missing, so every call issues a wait.
WaitForEventOnStream_Rest_NoSearch(e, stream, awaited) ==
    /\ then_wait_for' = [then_wait_for EXCEPT ![e] = Append(@, stream)]
    /\ streams_defined_on_' = [streams_defined_on_ EXCEPT ![e] = Append(@, stream)]
    /\ Return(Call("WaitForEventOnStream", e, stream), awaited, <<"waited">>)
    /\ UNCHANGED <<event_, record_stream>>

\* Line 59-69: the code of WaitForEventOnStream after the Await.  The
\* method returns nothing: `returned` notes which return statement ended it.
WaitForEventOnStream_Rest(e, stream, awaited) ==
    /\ IF InVector(stream, streams_defined_on_[e])
         THEN /\ UNCHANGED <<streams_defined_on_, then_wait_for>>
              /\ Return(Call("WaitForEventOnStream", e, stream), awaited,
                        <<"already defined">>)
         ELSE /\ then_wait_for' = [then_wait_for EXCEPT ![e] = Append(@, stream)]
              /\ streams_defined_on_' =
                    [streams_defined_on_ EXCEPT ![e] = Append(@, stream)]
              /\ Return(Call("WaitForEventOnStream", e, stream), awaited,
                        <<"waited">>)
    /\ UNCHANGED <<event_, record_stream>>

\* Fault variant of WaitForEventOnStream_Call: the Await of line 56-57 is
\* missing.
WaitForEventOnStream_Call_NoAwait(e, stream) ==
    /\ Running /\ SomeIdle
    /\ WaitForEventOnStream_Rest(e, stream, FALSE) /\ UNCHANGED pending
    /\ UNCHANGED <<constVars, shapedVars, waiter, bufVars, lifeVars, guardVars,
                   fatal, histVars>>

\* Line 51-69: runs to the end when the event has been recorded, blocks in
\* the Await otherwise.
WaitForEventOnStream_Call(e, stream) ==
    /\ Running /\ SomeIdle
    /\ IF EventHasBeenRecorded(e)
         THEN WaitForEventOnStream_Rest(e, stream, FALSE) /\ UNCHANGED pending
         ELSE Block(Call("WaitForEventOnStream", e, stream)) /\ UNCHANGED eventVars
    /\ UNCHANGED <<constVars, shapedVars, waiter, bufVars, lifeVars, guardVars, fatal, histVars>>

\* Line 56-69: the Await's condition has become true.
WaitForEventOnStream_Wake(e, stream) ==
    /\ Running /\ BagIn(Call("WaitForEventOnStream", e, stream), pending)
    /\ EventHasBeenRecorded(e)
    /\ Unblock(Call("WaitForEventOnStream", e, stream))
    /\ WaitForEventOnStream_Rest(e, stream, TRUE)
    /\ UNCHANGED <<constVars, shapedVars, waiter, bufVars, lifeVars, guardVars, fatal, histVars>>

\* Fault variant of DefinedOnResult: only the first stream of the vector,
\* the one SetDefinitionEvent pushed, is looked at.
DefinedOnResult_FrontOnly(e, stream) ==
    streams_defined_on_[e] # <<>> /\ streams_defined_on_[e][1] = stream

\* Line 81-82: the value DefinedOn returns.
DefinedOnResult(e, stream) == InVector(stream, streams_defined_on_[e])

\* Line 79-82: the code of DefinedOn after the Await.
DefinedOn_Rest(e, stream, awaited) ==
    Return(Call("DefinedOn", e, stream), awaited, <<DefinedOnResult(e, stream)>>)

\* Line 71-83.
DefinedOn_Call(e, stream) ==
    /\ Running /\ SomeIdle
    /\ IF EventHasBeenRecorded(e)
         THEN DefinedOn_Rest(e, stream, FALSE) /\ UNCHANGED pending
         ELSE Block(Call("DefinedOn", e, stream))
    /\ UNCHANGED <<eventVars, constVars, shapedVars, waiter, bufVars, lifeVars, guardVars, fatal,
                   histVars>>

\* Line 76-83: the Await's condition has become true.
DefinedOn_Wake(e, stream) ==
    /\ Running /\ BagIn(Call("DefinedOn", e, stream), pending)
    /\ EventHasBeenRecorded(e)
    /\ Unblock(Call("DefinedOn", e, stream))
    /\ DefinedOn_Rest(e, stream, TRUE)
    /\ UNCHANGED <<eventVars, constVars, shapedVars, waiter, bufVars, lifeVars, guardVars, fatal,
                   histVars>>

\* Line 93: the poll of the device's state, which is the device's to decide.
IsComplete_Rest(e, awaited) ==
    \E complete \in BOOLEAN :
        Return(Call("IsComplete", e, None), awaited, <<complete>>)

\* Line 85-94.
IsComplete_Call(e) ==
    /\ Running /\ SomeIdle
    /\ IF EventHasBeenRecorded(e)
         THEN IsComplete_Rest(e, FALSE) /\ UNCHANGED pending
         ELSE Block(Call("IsComplete", e, None))
    /\ UNCHANGED <<eventVars, constVars, shapedVars, waiter, bufVars, lifeVars, guardVars, fatal,
                   histVars>>

\* Line 90-93: the Await's condition has become true.
IsComplete_Wake(e) ==
    /\ Running /\ BagIn(Call("IsComplete", e, None), pending)
    /\ EventHasBeenRecorded(e)
    /\ Unblock(Call("IsComplete", e, None))
    /\ IsComplete_Rest(e, TRUE)
    /\ UNCHANGED <<eventVars, constVars, shapedVars, waiter, bufVars, lifeVars, guardVars, fatal,
                   histVars>>

\* ----------------------------------------------------- SharedDeviceBuffer

\* operator< of BufferDefinitionEvent: compares what sequence_number()
\* returns for the two events.
EventLess(a, b) == sequence_numberResult(a).value < sequence_numberResult(b).value

Entry(stream, event, reference_held) ==
    [stream |-> stream, event |-> event, reference_held |-> reference_held]

\* Fault variants of FindStream: the loop stops at the first entry whatever
\* its stream; the loop never finds an entry.
FindStream_FirstEntry(stream) == IF Len(usage_events_) > 0 THEN 1 ELSE 0
FindStream_NoEntry(stream) == 0

\* Line 241-242: the index of the first entry of usage_events_ for `stream`,
\* or 0 when the loop finds none.
FindStream(stream) ==
    LET found == {i \in 1..Len(usage_events_) : usage_events_[i].stream = stream}
    IN IF found = {} THEN 0 ELSE CHOOSE i \in found : \A j \in found : i <= j

\* Fault variant of AddUsageHoldResult: the CHECK of line 210 is missing.
AddUsageHoldResult_Unchecked ==
    [fatal |-> NoFatal, usage_holds |-> usage_holds_ + 1]

\* Line 208-212: the state AddUsageHold leaves.
AddUsageHoldResult ==
    IF ~in_use_
      THEN [fatal |-> "AddUsageHold: CHECK(in_use_)", usage_holds |-> usage_holds_]
      ELSE [fatal |-> NoFatal, usage_holds |-> usage_holds_ + 1]

\* Fault variant of DropUsageHoldResult: the CHECK_GT of line 217 is missing.
DropUsageHoldResult_NoHoldCheck ==
    IF ~in_use_
      THEN [fatal |-> "DropUsageHold: CHECK(in_use_)", usage_holds |-> usage_holds_]
      ELSE [fatal |-> NoFatal, usage_holds |-> usage_holds_ - 1]

\* Line 214-219: the state DropUsageHold leaves.
DropUsageHoldResult ==
    IF ~in_use_
      THEN [fatal |-> "DropUsageHold: CHECK(in_use_)", usage_holds |-> usage_holds_]
    ELSE IF ~(usage_holds_ > 0)
      THEN [fatal |-> "DropUsageHold: CHECK_GT(usage_holds_, 0)",
            usage_holds |-> usage_holds_]
      ELSE [fatal |-> NoFatal, usage_holds |-> usage_holds_ - 1]

\* Fault variant of Supersedes: the last conversion always wins.
Supersedes_LastWins(existing, event) == TRUE

\* Fault variant of Supersedes: an event of the same sequence number
\* replaces the entry too.
Supersedes_OrEqual(existing, event) == ~EventLess(event, existing)

\* Line 243: whether the existing entry is replaced by the new event.
Supersedes(existing, event) == EventLess(existing, event)

\* Line 233-251: the state ConvertUsageHold leaves.
ConvertUsageHoldResult(usage_stream, event, reference_held) ==
    LET i == FindStream(usage_stream)
    IN IF ~in_use_
         THEN [fatal |-> "ConvertUsageHold: CHECK(in_use_)",
               usage_holds |-> usage_holds_, usage_events |-> usage_events_]
       ELSE IF ~(usage_holds_ > 0)
         THEN [fatal |-> "ConvertUsageHold: CHECK_GT(usage_holds_, 0)",
               usage_holds |-> usage_holds_, usage_events |-> usage_events_]
       ELSE IF i = 0
         THEN [fatal |-> NoFatal, usage_holds |-> usage_holds_ - 1,
               usage_events |->
                   Append(usage_events_, Entry(usage_stream, event, reference_held))]
       ELSE IF sequence_numberResult(usage_events_[i].event).fatal # NoFatal
         THEN [fatal |-> sequence_numberResult(usage_events_[i].event).fatal,
               usage_holds |-> usage_holds_ - 1, usage_events |-> usage_events_]
       ELSE IF sequence_numberResult(event).fatal # NoFatal
         THEN [fatal |-> sequence_numberResult(event).fatal,
               usage_holds |-> usage_holds_ - 1, usage_events |-> usage_events_]
       ELSE IF Supersedes(usage_events_[i].event, event)
         THEN [fatal |-> NoFatal, usage_holds |-> usage_holds_ - 1,
               usage_events |->
                   [usage_events_ EXCEPT ![i].event = event,
                                         ![i].reference_held = reference_held]]
         ELSE [fatal |-> NoFatal, usage_holds |-> usage_holds_ - 1,
               usage_events |-> usage_events_]

\* Fault variant of DestructorResult: the CHECK_EQ of line 194 is missing.
DestructorResult_Unchecked ==
    [fatal |-> NoFatal,
     deallocate |-> IF allocator_ THEN device_memory_ ELSE <<>>,
     callback |-> on_delete_callback_]

\* Line 193-206: what the destructor does: the failed CHECK if any, the
\* regions it deallocates in order, and whether the delete callback runs.
DestructorResult ==
    IF external_references_ # 0
      THEN [fatal |-> "~SharedDeviceBuffer: CHECK_EQ(external_references_, 0)",
            deallocate |-> <<>>, callback |-> FALSE]
      ELSE [fatal |-> NoFatal,
            deallocate |-> IF allocator_ THEN device_memory_ ELSE <<>>,
            callback |-> on_delete_callback_]

\* The shared_ptr references become `o` (callers') and `p` (guards'); when
\* none is left the destructor runs.  `f` is the CHECK that failed before
\* the references were dropped, if any: then nothing is dropped.
SetReferences(f, o, p) ==
    IF f # NoFatal
      THEN fatal' = f /\ UNCHANGED <<lifeVars, parent_>>
    ELSE IF o + Cardinality({g \in Guards : p[g]}) > 0
      THEN /\ owners' = o /\ parent_' = p
           /\ UNCHANGED <<fatal, destroyed, deallocated, callback_runs>>
    ELSE IF DestructorResult.fatal # NoFatal
      THEN /\ fatal' = DestructorResult.fatal
           /\ owners' = o /\ parent_' = p
           /\ UNCHANGED <<destroyed, deallocated, callback_runs>>
      ELSE /\ owners' = o /\ parent_' = p
           /\ destroyed' = TRUE
           /\ deallocated' = deallocated \o DestructorResult.deallocate
           /\ callback_runs' = callback_runs + (IF DestructorResult.callback THEN 1 ELSE 0)
           /\ UNCHANGED fatal

LockCall == Call("LockUseAndTransferUsageEvents", None, None)

\* A caller lets go of a shared_ptr to the buffer (not the one a thread is
\* inside LockUseAndTransferUsageEvents through).
DropSharedPtr ==
    /\ Running /\ SomeIdle /\ Reachable
    /\ owners > 1 \/ ~BagIn(LockCall, pending)
    /\ SetReferences(NoFatal, owners - 1, parent_)
    /\ returned' = NoRet
    /\ UNCHANGED <<eventVars, constVars, shapedVars, waiter, bufVars, guard_alive, pending, histVars>>

\* Line 208-212.
AddUsageHold ==
    /\ Running /\ SomeIdle /\ Reachable
    /\ in_use_ => n_add < MaxAdds
    /\ fatal' = AddUsageHoldResult.fatal
    /\ usage_holds_' = AddUsageHoldResult.usage_holds
    /\ n_add' = n_add + (IF AddUsageHoldResult.fatal = NoFatal THEN 1 ELSE 0)
    /\ returned' = NoRet
    /\ UNCHANGED <<eventVars, constVars, shapedVars, waiter, in_use_, external_references_,
                   usage_events_, lifeVars, guardVars, pending, n_drop,
                   n_convert, conv_hist>>

\* Line 214-219.
DropUsageHold ==
    /\ Running /\ SomeIdle /\ Reachable
    /\ fatal' = DropUsageHoldResult.fatal
    /\ usage_holds_' = DropUsageHoldResult.usage_holds
    /\ n_drop' = n_drop + (IF DropUsageHoldResult.fatal = NoFatal THEN 1 ELSE 0)
    /\ returned' = NoRet
    /\ UNCHANGED <<eventVars, constVars, shapedVars, waiter, in_use_, external_references_,
                   usage_events_, lifeVars, guardVars, pending, n_add,
                   n_convert, conv_hist>>

\* Line 221-225.
AddExternalReference ==
    /\ Running /\ SomeIdle /\ Reachable
    /\ in_use_ => external_references_ < MaxExternal
    /\ IF ~in_use_
         THEN /\ fatal' = "AddExternalReference: CHECK(in_use_)"
              /\ UNCHANGED external_references_
         ELSE /\ external_references_' = external_references_ + 1
              /\ UNCHANGED fatal
    /\ returned' = NoRet
    /\ UNCHANGED <<eventVars, constVars, shapedVars, waiter, in_use_, usage_holds_, usage_events_,
                   lifeVars, guardVars, pending, histVars>>

\* Fault variant of DropExternalReference: the CHECK_GT of line 229 is
\* missing.
DropExternalReference_Unchecked ==
    /\ Running /\ SomeIdle /\ Reachable
    /\ external_references_' = external_references_ - 1
    /\ UNCHANGED fatal
    /\ returned' = NoRet
    /\ UNCHANGED <<eventVars, constVars, shapedVars, waiter, in_use_,
                   usage_holds_, usage_events_, lifeVars, guardVars, pending,
                   histVars>>

\* Line 227-231.
DropExternalReference ==
    /\ Running /\ SomeIdle /\ Reachable
    /\ IF ~(external_references_ > 0)
         THEN /\ fatal' = "DropExternalReference: CHECK_GT(external_references_, 0)"
              /\ UNCHANGED external_references_
         ELSE /\ external_references_' = external_references_ - 1
              /\ UNCHANGED fatal
    /\ returned' = NoRet
    /\ UNCHANGED <<eventVars, constVars, shapedVars, waiter, in_use_, usage_holds_, usage_events_,
                   lifeVars, guardVars, pending, histVars>>

\* The history of a ConvertUsageHold call whose result is `r`: per stream,
\* the events of the completed calls and the event of the last of them.
RecordConvert(r, usage_stream, event) ==
    /\ n_convert' = n_convert + (IF in_use_ /\ usage_holds_ > 0 THEN 1 ELSE 0)
    /\ conv_hist' =
          IF r.fatal # NoFatal THEN conv_hist
          ELSE [conv_hist EXCEPT ![usage_stream] =
                  [events |-> @.events \cup {event}, last |-> event]]

\* Line 233-251.
ConvertUsageHold(usage_stream, event, reference_held) ==
    /\ Running /\ SomeIdle /\ Reachable
    /\ LET r == ConvertUsageHoldResult(usage_stream, event, reference_held)
       IN /\ fatal' = r.fatal
          /\ usage_holds_' = r.usage_holds
          /\ usage_events_' = r.usage_events
          /\ RecordConvert(r, usage_stream, event)
    /\ returned' = NoRet
    /\ UNCHANGED <<eventVars, constVars, shapedVars, waiter, in_use_, external_references_, lifeVars,
                   guardVars, pending, n_add, n_drop>>

\* Fault variant of holds_converted: the Await does not wait for the holds.
holds_converted_NoWait == TRUE

\* Fault variant of holds_converted: the Await also waits for the usage
\* events to be gone.
holds_converted_AndNoEvents == usage_holds_ = 0 /\ usage_events_ = <<>>

\* Line 255-258: the condition of the Await.
holds_converted == usage_holds_ = 0

\* Fault variant of MovedFrom: the container moved from keeps its elements.
MovedFrom_KeepsElements(container) == container

\* The container a container has been moved out of (std::move, line 264):
\* the type of usage_events_ is declared in the header; the buffer's own
\* copy is left empty.
MovedFrom(container) == <<>>

\* Fault variant of LockUse_Rest: the CHECK of line 262 is missing.
LockUse_Rest_NoRecheck(awaited) ==
    /\ in_use_' = FALSE
    /\ usage_events_' = MovedFrom(usage_events_)
    /\ Return(LockCall, awaited, usage_events_)
    /\ UNCHANGED fatal

\* Line 262-264: the code of LockUseAndTransferUsageEvents after the Await.
LockUse_Rest(awaited) ==
    IF ~in_use_
      THEN /\ fatal' = "LockUseAndTransferUsageEvents: CHECK(in_use_) after Await"
           /\ returned' = NoRet
           /\ UNCHANGED <<in_use_, usage_events_>>
      ELSE /\ in_use_' = FALSE
           /\ usage_events_' = MovedFrom(usage_events_)
           /\ Return(LockCall, awaited, usage_events_)
           /\ UNCHANGED fatal

\* Line 253-265: runs to the end when no hold is outstanding, blocks in the
\* Await otherwise.
LockUse_Call ==
    /\ Running /\ SomeIdle /\ Reachable
    /\ IF ~in_use_
         THEN /\ fatal' = "LockUseAndTransferUsageEvents: CHECK(in_use_)"
              /\ returned' = NoRet
              /\ UNCHANGED <<in_use_, usage_events_, pending>>
       ELSE IF holds_converted
         THEN LockUse_Rest(FALSE) /\ UNCHANGED pending
         ELSE /\ Block(LockCall)
              /\ UNCHANGED <<in_use_, usage_events_, fatal>>
    /\ UNCHANGED <<eventVars, constVars, shapedVars, waiter, usage_holds_, external_references_,
                   lifeVars, guardVars, histVars>>

\* Line 261-264: the Await's condition has become true.
LockUse_Wake ==
    /\ Running /\ BagIn(LockCall, pending)
    /\ holds_converted
    /\ Unblock(LockCall)
    /\ LockUse_Rest(TRUE)
    /\ UNCHANGED <<eventVars, constVars, shapedVars, waiter, usage_holds_, external_references_,
                   lifeVars, guardVars, histVars>>

\* ------------------------------------------ SharedDeviceBuffer::ScopedUsage

\* Line 149-157.  `parent` is TRUE for the buffer and FALSE for a null
\* pointer; the guard keeps the shared_ptr it was given.
ScopedUsage_Acquire(g, parent) ==
    /\ Running /\ SomeIdle /\ guard_alive[g]
    /\ parent => (Reachable /\ (in_use_ => n_add < MaxAdds) /\ RefCount < MaxRefs)
    /\ IF parent_[g]
         THEN /\ fatal' = "ScopedUsage::Acquire: CHECK(parent_ == nullptr)"
              /\ UNCHANGED <<usage_holds_, n_add, parent_>>
       ELSE IF parent
         THEN /\ parent_' = [parent_ EXCEPT ![g] = TRUE]
              /\ fatal' = AddUsageHoldResult.fatal
              /\ usage_holds_' = AddUsageHoldResult.usage_holds
              /\ n_add' = n_add + (IF AddUsageHoldResult.fatal = NoFatal THEN 1 ELSE 0)
         ELSE UNCHANGED <<usage_holds_, n_add, parent_, fatal>>
    /\ returned' = NoRet
    /\ UNCHANGED <<eventVars, constVars, shapedVars, waiter, in_use_, external_references_,
                   usage_events_, lifeVars, guard_alive, pending, n_drop,
                   n_convert, conv_hist>>

\* Line 159-161: the guard's reference moves to the caller.
ScopedUsage_Release(g) ==
    /\ Running /\ SomeIdle /\ guard_alive[g]
    /\ parent_' = [parent_ EXCEPT ![g] = FALSE]
    /\ owners' = owners + (IF parent_[g] THEN 1 ELSE 0)
    /\ returned' = NoRet
    /\ UNCHANGED <<eventVars, constVars, shapedVars, waiter, bufVars, destroyed, deallocated,
                   callback_runs, guard_alive, pending, fatal, histVars>>

\* Line 163-167.
ScopedUsage_Transfer(g, parent) ==
    /\ Running /\ SomeIdle /\ guard_alive[g]
    /\ parent => (Reachable /\ RefCount < MaxRefs)
    /\ IF parent_[g]
         THEN /\ fatal' = "ScopedUsage::Transfer: CHECK(parent_ == nullptr)"
              /\ UNCHANGED parent_
         ELSE /\ parent_' = [parent_ EXCEPT ![g] = parent]
              /\ UNCHANGED fatal
    /\ returned' = NoRet
    /\ UNCHANGED <<eventVars, constVars, shapedVars, waiter, bufVars, lifeVars, guard_alive,
                   pending, histVars>>

\* Fault variant of ScopedUsage_Convert: the assignment of line 174 is
\* missing, so the guard keeps its parent.
ScopedUsage_Convert_KeepsParent(g, usage_stream, event, reference_held) ==
    /\ Running /\ SomeIdle /\ guard_alive[g]
    /\ IF ~parent_[g]
         THEN /\ fatal' = "ScopedUsage::Convert: CHECK(parent_ != nullptr)"
              /\ UNCHANGED <<usage_holds_, usage_events_, lifeVars, parent_,
                             n_convert, conv_hist>>
         ELSE LET r == ConvertUsageHoldResult(usage_stream, event, reference_held)
              IN /\ usage_holds_' = r.usage_holds
                 /\ usage_events_' = r.usage_events
                 /\ RecordConvert(r, usage_stream, event)
                 /\ SetReferences(r.fatal, owners, parent_)
    /\ returned' = NoRet
    /\ UNCHANGED <<eventVars, constVars, shapedVars, waiter, in_use_,
                   external_references_, guard_alive, pending, n_add, n_drop>>

\* Line 169-175: ConvertUsageHold, then the guard lets go of its reference.
ScopedUsage_Convert(g, usage_stream, event, reference_held) ==
    /\ Running /\ SomeIdle /\ guard_alive[g]
    /\ IF ~parent_[g]
         THEN /\ fatal' = "ScopedUsage::Convert: CHECK(parent_ != nullptr)"
              /\ UNCHANGED <<usage_holds_, usage_events_, lifeVars, parent_,
                             n_convert, conv_hist>>
         ELSE LET r == ConvertUsageHoldResult(usage_stream, event, reference_held)
              IN /\ usage_holds_' = r.usage_holds
                 /\ usage_events_' = r.usage_events
                 /\ RecordConvert(r, usage_stream, event)
                 /\ SetReferences(r.fatal, owners, [parent_ EXCEPT ![g] = FALSE])
    /\ returned' = NoRet
    /\ UNCHANGED <<eventVars, constVars, shapedVars, waiter, in_use_, external_references_,
                   guard_alive, pending, n_add, n_drop>>

\* Line 143-147: DropUsageHold if the guard still has its parent, then the
\* member parent_ is destroyed.
ScopedUsage_Destructor(g) ==
    /\ Running /\ SomeIdle /\ guard_alive[g]
    /\ guard_alive' = [guard_alive EXCEPT ![g] = FALSE]
    /\ IF parent_[g]
         THEN /\ usage_holds_' = DropUsageHoldResult.usage_holds
              /\ n_drop' = n_drop + (IF DropUsageHoldResult.fatal = NoFatal THEN 1 ELSE 0)
              /\ SetReferences(DropUsageHoldResult.fatal, owners,
                               [parent_ EXCEPT ![g] = FALSE])
         ELSE UNCHANGED <<usage_holds_, n_drop, lifeVars, parent_, fatal>>
    /\ returned' = NoRet
    /\ UNCHANGED <<eventVars, constVars, shapedVars, waiter, in_use_, external_references_,
                   usage_events_, pending, n_add, n_convert, conv_hist>>

\* ------------------------------------------------------- shaped buffers

\* Line 96-113: ForEachSubshape visits the subshapes of the device shape
\* while the iterator walks the slots of the source: each visit copies the
\* slot's region to the end of `buffers` and clears the slot.  More
\* subshapes than slots fail the CHECK of line 108, fewer that of line 113.
FromScopedShapedBufferResult(sb) ==
    LET k == sb.subshapes
        n == Len(sb.buffers)
    IN  IF k > n
          THEN [fatal |-> "FromScopedShapedBuffer: CHECK(iterator != end)",
                buffers |-> <<>>, source |-> sb]
        ELSE IF k < n
          THEN [fatal |-> "FromScopedShapedBuffer: CHECK(iterator == end)",
                buffers |-> <<>>, source |-> sb]
        ELSE [fatal |-> NoFatal,
              buffers |-> [i \in 1..k |-> sb.buffers[i]],
              source |-> [sb EXCEPT !.buffers =
                            [i \in 1..n |-> IF i <= k THEN NullRegion
                                                     ELSE sb.buffers[i]]]]

\* Line 96-118: the buffer is made of the regions of the source, with the
\* source's allocator, the definition events given and no callback.
FromScopedShapedBuffer(definition_events) ==
    /\ Running /\ SomeIdle
    /\ owners = 0 /\ ~destroyed
    /\ shaped_buffer # NoShaped /\ source_regions = <<>>
    /\ LET r == FromScopedShapedBufferResult(shaped_buffer)
       IN  /\ fatal' = r.fatal
           /\ IF r.fatal # NoFatal
                THEN /\ returned' = NoRet
                     /\ UNCHANGED <<constVars, shaped_buffer, source_regions,
                                    bufVars, owners>>
                ELSE /\ allocator_' = TRUE
                     /\ on_delete_callback_' = FALSE
                     /\ device_memory_' = r.buffers
                     /\ definition_events_' = definition_events
                     /\ threads' = threads
                     /\ in_use_' = TRUE
                     /\ usage_holds_' = 0
                     /\ external_references_' = 0
                     /\ usage_events_' = <<>>
                     /\ owners' = 1
                     /\ source_regions' = shaped_buffer.buffers
                     /\ shaped_buffer' = r.source
                     /\ Return(Call("FromScopedShapedBuffer", None, None),
                               FALSE, r.buffers)
    /\ UNCHANGED <<eventVars, exported, destroyed, deallocated, callback_runs,
                   guardVars, waiter, pending, histVars>>

\* Fault variant of AsShapedBufferResult: without the CHECK of line 132 the
\* slots after the last region stay null.
AsShapedBufferResult_NoEndCheck(slots) ==
    LET n == Len(device_memory_)
    IN  IF n > slots
          THEN [fatal |-> "AsShapedBuffer: CHECK(iterator != end)",
                shaped |-> NoShaped]
        ELSE [fatal |-> NoFatal,
              shaped |-> [subshapes |-> slots,
                          buffers |-> [i \in 1..slots |->
                                         IF i <= n THEN device_memory_[i]
                                                   ELSE NullRegion]]]

\* Line 120-134: the ShapedBuffer made for the shapes has `slots` slots;
\* the loop stores the regions in them in order.  More regions than slots
\* fail the CHECK of line 128, fewer that of line 132.
AsShapedBufferResult(slots) ==
    LET n == Len(device_memory_)
    IN  IF n > slots
          THEN [fatal |-> "AsShapedBuffer: CHECK(iterator != end)",
                shaped |-> NoShaped]
        ELSE IF n < slots
          THEN [fatal |-> "AsShapedBuffer: CHECK(iterator == end)",
                shaped |-> NoShaped]
        ELSE [fatal |-> NoFatal,
              shaped |-> [subshapes |-> slots,
                          buffers |-> [i \in 1..slots |-> device_memory_[i]]]]

\* Line 120-134.
AsShapedBuffer(slots) ==
    /\ Running /\ SomeIdle /\ Reachable
    /\ LET r == AsShapedBufferResult(slots)
       IN  /\ fatal' = r.fatal
           /\ IF r.fatal # NoFatal
                THEN /\ returned' = NoRet
                     /\ UNCHANGED exported
                ELSE /\ exported' = r.shaped
                     /\ Return(Call("AsShapedBuffer", None, None), FALSE,
                               r.shaped.buffers)
    /\ UNCHANGED <<eventVars, constVars, shaped_buffer, source_regions,
                   bufVars, lifeVars, guardVars, waiter, pending, histVars>>

\* ---------------------------------------------------------- free functions

\* Fault variant of GetDeviceBufferDefinitionEvents: the loop of line 270
\* ends after the first definition event.
GetDeviceBufferDefinitionEvents_FirstOnly ==
    IF definition_events_ = <<>> THEN {} ELSE {definition_events_[1]}

\* Line 267-273: the set the definition events are inserted into.
GetDeviceBufferDefinitionEvents ==
    {definition_events_[i] : i \in 1..Len(definition_events_)}

WaitForBufferCall(stream) ==
    Call("WaitForBufferDefinitionEventsOnStream", None, stream)

\* Line 275-278: a thread enters the function and collects the events.
WaitForBuffer_Call(stream) ==
    /\ Running /\ SomeIdle /\ Reachable
    /\ ~waiter.active
    /\ waiter' = [active |-> TRUE, stream |-> stream,
                  events |-> GetDeviceBufferDefinitionEvents,
                  blocked_on |-> None, awaited |-> FALSE, called |-> <<>>]
    /\ returned' = NoRet
    /\ UNCHANGED <<eventVars, constVars, shapedVars, bufVars, lifeVars,
                   guardVars, pending, fatal, histVars>>

\* Line 279-280: the loop takes an event of the set, in the set's order
\* (any), and calls WaitForEventOnStream on it: the call runs to its end
\* when the event has been recorded and blocks otherwise.  `called` is the
\* history of these calls.
WaitForBuffer_Iterate(e) ==
    /\ Running
    /\ waiter.active /\ waiter.blocked_on = None
    /\ e \in waiter.events
    /\ IF EventHasBeenRecorded(e)
         THEN /\ WaitForEventOnStream_Rest(e, waiter.stream, FALSE)
              /\ waiter' = [waiter EXCEPT !.events = @ \ {e},
                                          !.called = Append(@, e)]
         ELSE /\ waiter' = [waiter EXCEPT !.blocked_on = e, !.awaited = TRUE,
                                          !.called = Append(@, e)]
              /\ returned' = NoRet
              /\ UNCHANGED eventVars
    /\ UNCHANGED <<constVars, shapedVars, bufVars, lifeVars, guardVars,
                   pending, fatal, histVars>>

\* Line 280: the Await of the WaitForEventOnStream the loop is in returns.
WaitForBuffer_Wake ==
    /\ Running
    /\ waiter.active /\ waiter.blocked_on # None
    /\ EventHasBeenRecorded(waiter.blocked_on)
    /\ WaitForEventOnStream_Rest(waiter.blocked_on, waiter.stream, TRUE)
    /\ waiter' = [waiter EXCEPT !.events = @ \ {waiter.blocked_on},
                                !.blocked_on = None]
    /\ UNCHANGED <<constVars, shapedVars, bufVars, lifeVars, guardVars,
                   pending, fatal, histVars>>

\* Line 279-282: the loop has ended and the function returns (nothing;
\* `returned` notes the calls it made).
WaitForBuffer_Return ==
    /\ Running
    /\ waiter.active /\ waiter.blocked_on = None /\ waiter.events = {}
    /\ waiter' = NoWaiter
    /\ Return(WaitForBufferCall(waiter.stream), waiter.awaited, waiter.called)
    /\ UNCHANGED <<eventVars, constVars, shapedVars, bufVars, lifeVars,
                   guardVars, pending, fatal, histVars>>

\* ------------------------------------------------------------ specification

\* Line 177-191: the buffer as its constructor leaves it, referenced by the
\* shared_ptr its creator holds; events and guards as constructed.
Init ==
    /\ event_ = [e \in Events |-> NullHandle]
    /\ streams_defined_on_ = [e \in Events |-> <<>>]
    /\ then_wait_for = [e \in Events |-> <<>>]
    /\ record_stream = [e \in Events |-> "none"]
    /\ allocator_ \in BOOLEAN
    /\ on_delete_callback_ \in BOOLEAN
    /\ device_memory_ = [i \in 1..NumRegions |-> i]
    /\ definition_events_ = <<>>
    /\ threads = NumThreads
    /\ shaped_buffer = NoShaped
    /\ source_regions = <<>>
    /\ exported = NoShaped
    /\ waiter = NoWaiter
    /\ in_use_ = TRUE
    /\ usage_holds_ = 0
    /\ external_references_ = 0
    /\ usage_events_ = <<>>
    /\ owners = 1
    /\ destroyed = FALSE
    /\ deallocated = <<>>
    /\ callback_runs = 0
    /\ parent_ = [g \in Guards |-> FALSE]
    /\ guard_alive = [g \in Guards |-> TRUE]
    /\ pending = EmptyBag
    /\ returned = NoRet
    /\ fatal = NoFatal
    /\ n_add = 0
    /\ n_drop = 0
    /\ n_convert = 0
    /\ conv_hist = NoConversions

\* The completion event and its waiters.
NextEvent ==
    \/ \E e \in Events, seq \in SeqNums, s \in Streams : SetDefinitionEvent(e, seq, s)
    \/ \E e \in Events : sequence_number(e)
    \/ \E e \in Events, s \in Streams : WaitForEventOnStream_Call(e, s)
    \/ \E e \in Events, s \in Streams : WaitForEventOnStream_Wake(e, s)
    \/ \E e \in Events, s \in Streams : DefinedOn_Call(e, s)
    \/ \E e \in Events, s \in Streams : DefinedOn_Wake(e, s)
    \/ \E e \in Events : IsComplete_Call(e)
    \/ \E e \in Events : IsComplete_Wake(e)

\* The buffer used through guards: its owners, its guards (whose methods
\* call AddUsageHold, DropUsageHold and ConvertUsageHold), the external
\* references, finalization and destruction.
NextBuffer ==
    \/ AddExternalReference
    \/ DropExternalReference
    \/ LockUse_Call
    \/ LockUse_Wake
    \/ \E g \in Guards, p \in BOOLEAN : ScopedUsage_Acquire(g, p)
    \/ \E g \in Guards : ScopedUsage_Release(g)
    \/ \E g \in Guards, p \in BOOLEAN : ScopedUsage_Transfer(g, p)
    \/ \E g \in Guards, s \in Streams, e \in Events, h \in BOOLEAN :
          ScopedUsage_Convert(g, s, e, h)
    \/ \E g \in Guards : ScopedUsage_Destructor(g)
    \/ DropSharedPtr

\* The buffer reads an event's sequence number only, never the streams it is
\* defined on: where the buffer is the subject, events are recorded on one
\* stream.
RecordingStream == "s1"

\* The hold protocol of the buffer alone: the buffer stays referenced by
\* its creator, no guard is used.
NextHold ==
    \/ \E e \in Events, seq \in SeqNums : SetDefinitionEvent(e, seq, RecordingStream)
    \/ AddUsageHold
    \/ DropUsageHold
    \/ \E s \in Streams, e \in Events, h \in BOOLEAN : ConvertUsageHold(s, e, h)
    \/ AddExternalReference
    \/ DropExternalReference
    \/ LockUse_Call
    \/ LockUse_Wake

\* The allocator and the delete callback are read by the destructor only.
InitHold == Init /\ allocator_ /\ on_delete_callback_

\* The sequence numbers an event pool hands out, in the order of Events.
PoolSequence == [e \in Events |-> IF e = "e1" THEN 1 ELSE MaxSeq]

\* The state after construction and after every event has been recorded on
\* RecordingStream, each with the sequence number its pool gave it.
InitBuffer ==
    /\ event_ = [e \in Events |-> Handle(PoolSequence[e])]
    /\ streams_defined_on_ = [e \in Events |-> <<RecordingStream>>]
    /\ then_wait_for = [e \in Events |-> <<>>]
    /\ record_stream = [e \in Events |-> RecordingStream]
    /\ allocator_ \in BOOLEAN
    /\ on_delete_callback_ \in BOOLEAN
    /\ device_memory_ = [i \in 1..NumRegions |-> i]
    /\ definition_events_ = <<>>
    /\ threads = NumThreads
    /\ shaped_buffer = NoShaped
    /\ source_regions = <<>>
    /\ exported = NoShaped
    /\ waiter = NoWaiter
    /\ in_use_ = TRUE
    /\ usage_holds_ = 0
    /\ external_references_ = 0
    /\ usage_events_ = <<>>
    /\ owners = 1
    /\ destroyed = FALSE
    /\ deallocated = <<>>
    /\ callback_runs = 0
    /\ parent_ = [g \in Guards |-> FALSE]
    /\ guard_alive = [g \in Guards |-> TRUE]
    /\ pending = EmptyBag
    /\ returned = NoRet
    /\ fatal = NoFatal
    /\ n_add = 0
    /\ n_drop = 0
    /\ n_convert = 0
    /\ conv_hist = NoConversions

\* An event, the thread that records it and the threads that wait for it.
NextWait ==
    \/ \E e \in Events, seq \in SeqNums, s \in Streams : SetDefinitionEvent(e, seq, s)
    \/ \E e \in Events, s \in Streams : WaitForEventOnStream_Call(e, s)
    \/ \E e \in Events, s \in Streams : WaitForEventOnStream_Wake(e, s)

\* Mutex::Await returns once its condition holds: a blocked
\* WaitForEventOnStream whose event has been recorded goes on.
FairWait ==
    \A e \in Events, s \in Streams : WF_vars(WaitForEventOnStream_Wake(e, s))

\* The guards of a buffer that its creator keeps referenced, and the
\* finalization: every hold is taken through a guard, and a hold that
\* Release hands to the caller stays with the caller.
NextGuard ==
    \/ \E g \in Guards, p \in BOOLEAN : ScopedUsage_Acquire(g, p)
    \/ \E g \in Guards : ScopedUsage_Release(g)
    \/ \E g \in Guards, s \in Streams, e \in Events, h \in BOOLEAN :
          ScopedUsage_Convert(g, s, e, h)
    \/ \E g \in Guards : ScopedUsage_Destructor(g)
    \/ LockUse_Call
    \/ LockUse_Wake

\* Mutex::Await returns once its condition holds: a blocked
\* LockUseAndTransferUsageEvents goes on when no hold is outstanding.
FairLock == WF_vars(LockUse_Wake)

\* The slot counts of the device shapes AsShapedBuffer is called with.
SlotCounts == 1..(MaxSlots + 1)

\* A buffer made of a shaped buffer and exported as one.
NextShaped ==
    \/ \E d \in UNION {[1..n -> Events] : n \in 0..MaxDefs} :
          FromScopedShapedBuffer(d)
    \/ \E slots \in SlotCounts : AsShapedBuffer(slots)

\* The ScopedShapedBuffers given: one slot per subshape of the device
\* shape, each holding a region or none.
ShapedSources ==
    UNION {{[subshapes |-> n, buffers |-> b] :
               b \in [1..n -> Regions \cup {NullRegion}]} : n \in 1..MaxSlots}

\* Before FromScopedShapedBuffer: a shaped buffer and no SharedDeviceBuffer.
InitShaped ==
    /\ event_ = [e \in Events |-> NullHandle]
    /\ streams_defined_on_ = [e \in Events |-> <<>>]
    /\ then_wait_for = [e \in Events |-> <<>>]
    /\ record_stream = [e \in Events |-> "none"]
    /\ allocator_ = FALSE
    /\ on_delete_callback_ = FALSE
    /\ device_memory_ = <<>>
    /\ definition_events_ = <<>>
    /\ threads = NumThreads
    /\ shaped_buffer \in ShapedSources
    /\ source_regions = <<>>
    /\ exported = NoShaped
    /\ waiter = NoWaiter
    /\ in_use_ = TRUE
    /\ usage_holds_ = 0
    /\ external_references_ = 0
    /\ usage_events_ = <<>>
    /\ owners = 0
    /\ destroyed = FALSE
    /\ deallocated = <<>>
    /\ callback_runs = 0
    /\ parent_ = [g \in Guards |-> FALSE]
    /\ guard_alive = [g \in Guards |-> TRUE]
    /\ pending = EmptyBag
    /\ returned = NoRet
    /\ fatal = NoFatal
    /\ n_add = 0
    /\ n_drop = 0
    /\ n_convert = 0
    /\ conv_hist = NoConversions

\* Holds taken, dropped and converted while threads call the finalization.
NextLock ==
    \/ AddUsageHold
    \/ DropUsageHold
    \/ \E s \in Streams, e \in Events, h \in BOOLEAN : ConvertUsageHold(s, e, h)
    \/ LockUse_Call
    \/ LockUse_Wake

\* The state after construction and after every event has been recorded,
\* with one thread more than NumThreads: NumThreads callers of the
\* finalization can block while one thread converts or drops the holds.
InitLock ==
    /\ event_ = [e \in Events |-> Handle(PoolSequence[e])]
    /\ streams_defined_on_ = [e \in Events |-> <<RecordingStream>>]
    /\ then_wait_for = [e \in Events |-> <<>>]
    /\ record_stream = [e \in Events |-> RecordingStream]
    /\ allocator_ = TRUE
    /\ on_delete_callback_ = TRUE
    /\ device_memory_ = [i \in 1..NumRegions |-> i]
    /\ definition_events_ = <<>>
    /\ threads = NumThreads + 1
    /\ shaped_buffer = NoShaped
    /\ source_regions = <<>>
    /\ exported = NoShaped
    /\ waiter = NoWaiter
    /\ in_use_ = TRUE
    /\ usage_holds_ = 0
    /\ external_references_ = 0
    /\ usage_events_ = <<>>
    /\ owners = 1
    /\ destroyed = FALSE
    /\ deallocated = <<>>
    /\ callback_runs = 0
    /\ parent_ = [g \in Guards |-> FALSE]
    /\ guard_alive = [g \in Guards |-> TRUE]
    /\ pending = EmptyBag
    /\ returned = NoRet
    /\ fatal = NoFatal
    /\ n_add = 0
    /\ n_drop = 0
    /\ n_convert = 0
    /\ conv_hist = NoConversions

\* A buffer's definition events, the thread that records them, a thread
\* that waits for all of them and threads that wait for one.
NextDefinition ==
    \/ \E e \in Events, seq \in SeqNums, s \in Streams : SetDefinitionEvent(e, seq, s)
    \/ \E e \in Events, s \in Streams : WaitForEventOnStream_Call(e, s)
    \/ \E e \in Events, s \in Streams : WaitForEventOnStream_Wake(e, s)
    \/ \E s \in Streams : WaitForBuffer_Call(s)
    \/ \E e \in Events : WaitForBuffer_Iterate(e)
    \/ WaitForBuffer_Wake
    \/ WaitForBuffer_Return

\* The lists of definition events a buffer is constructed with.
DefinitionLists ==
    UNION {[1..n -> Events] : n \in 0..MaxDefs}

\* Line 177-191: the buffer constructed with some list of definition
\* events, none recorded yet.
InitDefinition ==
    /\ event_ = [e \in Events |-> NullHandle]
    /\ streams_defined_on_ = [e \in Events |-> <<>>]
    /\ then_wait_for = [e \in Events |-> <<>>]
    /\ record_stream = [e \in Events |-> "none"]
    /\ allocator_ = TRUE
    /\ on_delete_callback_ = TRUE
    /\ device_memory_ = [i \in 1..NumRegions |-> i]
    /\ definition_events_ \in DefinitionLists
    /\ threads = NumThreads
    /\ shaped_buffer = NoShaped
    /\ source_regions = <<>>
    /\ exported = NoShaped
    /\ waiter = NoWaiter
    /\ in_use_ = TRUE
    /\ usage_holds_ = 0
    /\ external_references_ = 0
    /\ usage_events_ = <<>>
    /\ owners = 1
    /\ destroyed = FALSE
    /\ deallocated = <<>>
    /\ callback_runs = 0
    /\ parent_ = [g \in Guards |-> FALSE]
    /\ guard_alive = [g \in Guards |-> TRUE]
    /\ pending = EmptyBag
    /\ returned = NoRet
    /\ fatal = NoFatal
    /\ n_add = 0
    /\ n_drop = 0
    /\ n_convert = 0
    /\ conv_hist = NoConversions

Next == NextEvent \/ NextHold \/ NextBuffer \/ NextDefinition \/ NextShaped

Spec == Init /\ [][Next]_vars
SpecEvent == Init /\ [][NextEvent]_vars
SpecBuffer == InitBuffer /\ [][NextBuffer]_vars
SpecWait == InitHold /\ [][NextWait]_vars /\ FairWait
SpecGuard == InitBuffer /\ [][NextGuard]_vars /\ FairLock
SpecDefinition == InitDefinition /\ [][NextDefinition]_vars
SpecShaped == InitShaped /\ [][NextShaped]_vars
SpecLock == InitLock /\ [][NextLock]_vars
SpecHold == InitHold /\ [][NextHold]_vars

\* --------------------------------------------------------------- properties

\* LockUseAndTransferUsageEvents returned in the step just taken.
LockReturned == returned.op = LockCall.op

NoDuplicates(v) == \A i, j \in 1..Len(v) : v[i] = v[j] => i = j
StreamsOf(v) == {v[i].stream : i \in 1..Len(v)}
OneEntryPerStream(v) ==
    \A i, j \in 1..Len(v) : v[i].stream = v[j].stream => i = j

\* The streams some completed ConvertUsageHold call named.
ConvertedStreams == {s \in Streams : conv_hist[s].events # {}}

\* The usage events of the buffer, or those the finalization has just
\* handed to its caller.
Container == IF LockReturned THEN returned.val ELSE usage_events_

SeqOf(e) == event_[e].sequence_number

\* C1: LockUseAndTransferUsageEvents never completes while a usage hold is
\* outstanding: in_use goes from true to false only in a step that starts
\* and ends with usage_holds == 0, and that step is the return of
\* LockUseAndTransferUsageEvents.
C1_LockOnlyAtZeroHolds ==
    [][(in_use_ /\ ~in_use_')
         => (usage_holds_ = 0 /\ usage_holds_' = 0 /\ returned'.op = LockCall.op)]_vars

\* A finalization that had to wait for holds, and returned.
C1_Witness ==
    /\ LockReturned /\ returned.awaited
    /\ ~in_use_ /\ usage_holds_ = 0 /\ n_add > 0

\* C2: two holds are taken and each is converted on a stream of its own
\* while LockUseAndTransferUsageEvents is called concurrently: under every
\* interleaving the finalization does not return (and the buffer stays in
\* use) before both conversions have completed, and it returns exactly two
\* entries, one per stream, each with the event converted on that stream.
C2_TwoConvertsThenLock ==
    (n_add = 2 /\ n_drop = 0) =>
        /\ n_convert < 2 => (in_use_ /\ ~LockReturned)
        /\ (LockReturned /\ ConvertedStreams = Streams) =>
              /\ Len(returned.val) = 2
              /\ \A s \in Streams :
                    \E i \in 1..Len(returned.val) :
                        /\ returned.val[i].stream = s
                        /\ conv_hist[s].events = {returned.val[i].event}
              /\ OneEntryPerStream(returned.val)

\* The finalization was called while holds were outstanding and returned
\* both events after the two conversions.
C2_Witness ==
    /\ LockReturned /\ returned.awaited
    /\ n_add = 2 /\ n_drop = 0 /\ n_convert = 2
    /\ ConvertedStreams = Streams
    /\ Len(returned.val) = 2

\* C3 as the specification states it: memory is never deallocated while a
\* usage hold is outstanding or while a usage event has not been handed to
\* the finalization.
C3_Original ==
    deallocated # <<>> => (usage_holds_ = 0 /\ usage_events_ = <<>>)

\* C3, amended: the destructor, run when the last shared reference (a
\* caller's or a guard's) goes away, deallocates every region exactly once,
\* in order, and runs the delete callback once; it requires
\* external_references == 0 and nothing else: it checks neither usage_holds
\* nor usage_events, so a hold handed out by ScopedUsage::Release or a usage
\* event not yet handed over does not prevent deallocation.
C3_DeallocatedOnceByDestructor ==
    /\ NoDuplicates(deallocated)
    /\ deallocated = (IF destroyed /\ allocator_ THEN device_memory_ ELSE <<>>)
    /\ callback_runs = (IF destroyed /\ on_delete_callback_ THEN 1 ELSE 0)
    /\ destroyed => (external_references_ = 0 /\ RefCount = 0)

\* The regions were deallocated while a hold was outstanding.
C3_Witness ==
    /\ destroyed /\ deallocated = device_memory_
    /\ usage_holds_ > 0
    /\ external_references_ = 0

\* C4: usage_holds is never negative and equals the AddUsageHold calls minus
\* the successful DropUsageHold calls minus the ConvertUsageHold calls; a
\* DropUsageHold or ConvertUsageHold at usage_holds == 0 fails fatally and
\* does not decrement; LockUseAndTransferUsageEvents returns only when the
\* net count is zero; after 3 holds, 1 drop and 2 conversions on two
\* different streams it returns exactly 2 usage events with usage_holds == 0.
C4_HoldAccounting ==
    /\ usage_holds_ >= 0
    /\ usage_holds_ = n_add - n_drop - n_convert
    /\ LockReturned => n_add - n_drop - n_convert = 0
    /\ (in_use_ /\ usage_holds_ = 0) =>
          /\ DropUsageHoldResult.fatal # NoFatal
          /\ DropUsageHoldResult.usage_holds = 0
          /\ \A s \in Streams, e \in Events, h \in BOOLEAN :
                /\ ConvertUsageHoldResult(s, e, h).fatal # NoFatal
                /\ ConvertUsageHoldResult(s, e, h).usage_holds = 0
    /\ (LockReturned /\ n_add = 3 /\ n_drop = 1 /\ n_convert = 2
          /\ ConvertedStreams = Streams)
          => (Len(returned.val) = 2 /\ usage_holds_ = 0)

\* The scenario of 3 holds, 1 drop and 2 conversions on two streams, at the
\* return of the finalization.
C4_Witness ==
    /\ LockReturned
    /\ n_add = 3 /\ n_drop = 1 /\ n_convert = 2
    /\ ConvertedStreams = Streams
    /\ Len(returned.val) = 2 /\ usage_holds_ = 0

\* C5: usage_events never holds two entries for one stream, nor does the
\* collection the finalization returns; a ConvertUsageHold for a stream that
\* has an entry leaves the number of entries as it is, and one for a stream
\* without an entry appends exactly one entry, for that stream.
C5_OneEntryPerStream ==
    /\ OneEntryPerStream(usage_events_)
    /\ LockReturned => OneEntryPerStream(returned.val)
    /\ in_use_ => StreamsOf(usage_events_) = ConvertedStreams
    /\ \A s \in Streams, e \in Events, h \in BOOLEAN :
          LET r == ConvertUsageHoldResult(s, e, h)
          IN r.fatal = NoFatal =>
                IF s \in StreamsOf(usage_events_)
                  THEN /\ Len(r.usage_events) = Len(usage_events_)
                       /\ StreamsOf(r.usage_events) = StreamsOf(usage_events_)
                  ELSE r.usage_events = Append(usage_events_, Entry(s, e, h))

\* Two conversions on one stream have left one entry.
C5_Witness ==
    /\ Running /\ in_use_
    /\ n_convert = 2 /\ Cardinality(ConvertedStreams) = 1
    /\ Len(usage_events_) = 1

\* C6: the entry of a stream holds an event of greatest sequence number among
\* the events converted on that stream, whatever the order of the calls
\* (5 then 3 keeps 5, 3 then 5 keeps 5), in usage_events and in what the
\* finalization returns; a ConvertUsageHold replaces the entry's event only
\* when the new event's sequence number is strictly greater.
C6_KeepsGreatestSequence ==
    /\ (in_use_ \/ LockReturned) =>
          \A s \in ConvertedStreams :
              (\A e \in conv_hist[s].events : EventHasBeenRecorded(e)) =>
                  \E i \in 1..Len(Container) :
                      /\ Container[i].stream = s
                      /\ Container[i].event \in conv_hist[s].events
                      /\ \A e \in conv_hist[s].events :
                            SeqOf(e) <= SeqOf(Container[i].event)
    /\ \A s \in Streams, e \in Events, h \in BOOLEAN :
          \A i \in 1..Len(usage_events_) :
              LET r == ConvertUsageHoldResult(s, e, h)
              IN (r.fatal = NoFatal /\ usage_events_[i].stream = s) =>
                    IF SeqOf(e) > SeqOf(usage_events_[i].event)
                      THEN /\ r.usage_events[i].event = e
                           /\ r.usage_events[i].reference_held = h
                      ELSE r.usage_events = usage_events_

\* Both events were converted on one stream, the last call with the smaller
\* sequence number: the entry kept the greater.
C6_Witness ==
    \E s \in Streams, i \in 1..Len(usage_events_) :
        /\ Running /\ in_use_
        /\ usage_events_[i].stream = s
        /\ conv_hist[s].events = Events
        /\ \A e \in Events : EventHasBeenRecorded(e)
        /\ SeqOf(conv_hist[s].last) < SeqOf(usage_events_[i].event)

\* The calls C7 is about, as steps.
C7_Call ==
    \/ AddUsageHold
    \/ DropUsageHold
    \/ \E s \in Streams, e \in Events, h \in BOOLEAN : ConvertUsageHold(s, e, h)
    \/ AddExternalReference
    \/ LockUse_Call
    \/ LockUse_Wake

\* C7: in_use starts true and is one-way: only the return of
\* LockUseAndTransferUsageEvents makes it false and nothing makes it true
\* again; once it is false every AddUsageHold, DropUsageHold,
\* ConvertUsageHold, AddExternalReference and LockUseAndTransferUsageEvents
\* fails with a fatal assertion and leaves usage_holds, external_references
\* and usage_events as they were.
C7_InUseOneWay ==
    /\ in_use_ = TRUE
    /\ [][/\ ~in_use_ => ~in_use_'
          /\ (in_use_ /\ ~in_use_') => returned'.op = LockCall.op
          /\ (~in_use_ /\ C7_Call) =>
                /\ fatal' # NoFatal
                /\ UNCHANGED <<usage_holds_, external_references_, usage_events_>>
         ]_vars

\* AddExternalReference was called on the finalized buffer.
C7_Witness ==
    /\ ~in_use_
    /\ fatal = "AddExternalReference: CHECK(in_use_)"

\* C8: the record of an event is set at most once: the first
\* SetDefinitionEvent sets it and makes the set of synchronized streams
\* exactly the stream given; a later one fails with a fatal assertion and
\* leaves the record and the set as they were; no step changes a record
\* that is set.
C8_SetRecordOnce ==
    /\ [](\A e \in Events, seq \in SeqNums, s \in Streams :
            LET r == SetDefinitionEventResult(e, seq, s)
            IN IF event_[e].event
                 THEN /\ r.fatal # NoFatal
                      /\ r.event = event_[e]
                      /\ r.streams = streams_defined_on_[e]
                 ELSE /\ r.fatal = NoFatal
                      /\ r.event = Handle(seq)
                      /\ r.streams = <<s>>)
    /\ [][\A e \in Events : event_[e].event => event_'[e] = event_[e]]_vars

\* A second SetDefinitionEvent was called on a set event.
C8_Witness ==
    /\ fatal = "SetDefinitionEvent: CHECK(!event_.event())"
    /\ \E e \in Events : event_[e].event /\ streams_defined_on_[e] # <<>>

Occurrences(s, v) == Cardinality({i \in 1..Len(v) : v[i] = s})

\* C9: WaitForEventOnStream is idempotent per stream: no stream is told
\* twice to wait for an event and none is twice in the set of synchronized
\* streams; the stream given to SetDefinitionEvent is never told to wait;
\* when a call for stream S returns, S is in the set and has been told to
\* wait exactly once, or not at all when S is the stream of
\* SetDefinitionEvent.
C9_WaitIdempotent ==
    /\ \A e \in Events :
          /\ NoDuplicates(then_wait_for[e])
          /\ NoDuplicates(streams_defined_on_[e])
          /\ ~InVector(record_stream[e], then_wait_for[e])
    /\ returned.op = "WaitForEventOnStream" =>
          /\ InVector(returned.stream, streams_defined_on_[returned.event])
          /\ Occurrences(returned.stream, then_wait_for[returned.event]) =
                (IF returned.stream = record_stream[returned.event] THEN 0 ELSE 1)

\* A call for a stream that an earlier call had already synchronized.
C9_Witness ==
    /\ returned.op = "WaitForEventOnStream"
    /\ returned.val = <<"already defined">>
    /\ returned.stream # record_stream[returned.event]
    /\ Occurrences(returned.stream, then_wait_for[returned.event]) = 1

\* C10 as the specification states it: sequence_number on an event whose
\* record is not set does not fail.
C10_Original ==
    fatal # "sequence_number: CHECK(EventHasBeenRecorded())"

\* C10, amended: sequence_number never blocks; on an event whose record is
\* not set it fails with a fatal assertion, and on an event whose record is
\* set it returns the record's sequence number.
C10_SequenceNumberChecks ==
    /\ \A e \in Events :
          IF EventHasBeenRecorded(e)
            THEN sequence_numberResult(e) =
                    [fatal |-> NoFatal, value |-> event_[e].sequence_number]
            ELSE sequence_numberResult(e).fatal # NoFatal
    /\ \A c \in BagToSet(pending) : c.op # "sequence_number"
    /\ returned.op = "sequence_number" =>
          /\ EventHasBeenRecorded(returned.event)
          /\ returned.val = <<event_[returned.event].sequence_number>>
          /\ ~returned.awaited
    /\ fatal = "sequence_number: CHECK(EventHasBeenRecorded())" =>
          \E e \in Events : ~EventHasBeenRecorded(e)

\* sequence_number was called on an event whose record was not set, with
\* no call blocked.
C10_Witness ==
    /\ fatal = "sequence_number: CHECK(EventHasBeenRecorded())"
    /\ pending = EmptyBag
    /\ \E e \in Events : ~EventHasBeenRecorded(e)

WaitCall(e, s) == Call("WaitForEventOnStream", e, s)

\* C11: WaitForEventOnStream on an event whose record is not set issues no
\* wait and leaves the synchronized set alone until SetDefinitionEvent has
\* happened: it blocks; once the record is set, a blocked call eventually
\* returns (the process not being terminated by a failed CHECK meanwhile)
\* with its stream in the synchronized set.
C11_WaitBlocksUntilSet ==
    /\ [](\A e \in Events :
            ~EventHasBeenRecorded(e) =>
                (then_wait_for[e] = <<>> /\ streams_defined_on_[e] = <<>>))
    /\ [](returned.op = "WaitForEventOnStream" =>
            /\ EventHasBeenRecorded(returned.event)
            /\ InVector(returned.stream, streams_defined_on_[returned.event]))
    /\ [][\A e \in Events, s \in Streams :
            (~EventHasBeenRecorded(e) /\ WaitForEventOnStream_Call(e, s)) =>
                (BagIn(WaitCall(e, s), pending') /\ returned' = NoRet)]_vars
    /\ \A e \in Events, s \in Streams :
          (BagIn(WaitCall(e, s), pending) /\ EventHasBeenRecorded(e))
             ~> \/ ~Running
                \/ /\ returned.op = "WaitForEventOnStream"
                   /\ returned.event = e /\ returned.stream = s
                   /\ returned.awaited
                   /\ InVector(s, streams_defined_on_[e])

\* A call that had blocked on the unset event returned after the record
\* was set, having issued its wait.
C11_Witness ==
    /\ returned.op = "WaitForEventOnStream"
    /\ returned.awaited
    /\ returned.val = <<"waited">>
    /\ InVector(returned.stream, streams_defined_on_[returned.event])

\* S was given to SetDefinitionEvent, or a WaitForEventOnStream for S has
\* issued its wait and completed.
Established(e, s) == s = record_stream[e] \/ InVector(s, then_wait_for[e])

\* C12: DefinedOn(S) on a set event returns true exactly when S is the
\* stream given to SetDefinitionEvent or a WaitForEventOnStream(S) has
\* completed: false before either, true right after WaitForEventOnStream(S)
\* returns; a DefinedOn call, blocking or returning, leaves the synchronized
\* set and the issued waits as they were.
C12_DefinedOnExact ==
    /\ [](returned.op = "DefinedOn" =>
            /\ EventHasBeenRecorded(returned.event)
            /\ returned.val = <<Established(returned.event, returned.stream)>>)
    /\ [](\A e \in Events, s \in Streams :
            EventHasBeenRecorded(e) => (DefinedOnResult(e, s) = Established(e, s)))
    /\ [](returned.op = "WaitForEventOnStream" =>
            DefinedOnResult(returned.event, returned.stream))
    /\ [][(\/ returned'.op = "DefinedOn"
           \/ \E e \in Events, s \in Streams :
                 CopiesIn(Call("DefinedOn", e, s), pending')
                    > CopiesIn(Call("DefinedOn", e, s), pending))
            => UNCHANGED <<event_, streams_defined_on_, then_wait_for>>]_vars

\* DefinedOn returned true for a stream that a WaitForEventOnStream, not
\* SetDefinitionEvent, had established.
C12_Witness ==
    /\ returned.op = "DefinedOn"
    /\ returned.val = <<TRUE>>
    /\ returned.stream # record_stream[returned.event]

\* C13: external_references is never negative; it grows only by one, in an
\* AddExternalReference on a buffer in use; DropExternalReference at
\* external_references == 0 fails with a fatal assertion and decrements
\* nothing; a destructor that finds external_references != 0 fails with a
\* fatal assertion before any region is deallocated or the delete callback
\* runs.
C13_ExternalReferences ==
    /\ [](external_references_ >= 0)
    /\ []((external_references_ # 0) =>
            /\ DestructorResult.fatal # NoFatal
            /\ DestructorResult.deallocate = <<>>
            /\ ~DestructorResult.callback)
    /\ [](fatal = "~SharedDeviceBuffer: CHECK_EQ(external_references_, 0)" =>
            /\ external_references_ # 0
            /\ ~destroyed /\ deallocated = <<>> /\ callback_runs = 0)
    /\ [](destroyed => external_references_ = 0)
    /\ [][/\ external_references_' > external_references_ =>
               /\ in_use_ /\ AddExternalReference
               /\ external_references_' = external_references_ + 1
          /\ (~in_use_ /\ AddExternalReference) =>
               (fatal' # NoFatal /\ UNCHANGED external_references_)
          /\ (external_references_ = 0 /\ DropExternalReference) =>
               (fatal' # NoFatal /\ UNCHANGED external_references_)
          /\ external_references_' < external_references_ =>
               /\ DropExternalReference
               /\ external_references_' = external_references_ - 1
         ]_vars

\* The last shared reference was dropped while an external reference was
\* outstanding.
C13_Witness ==
    /\ fatal = "~SharedDeviceBuffer: CHECK_EQ(external_references_, 0)"
    /\ external_references_ > 0
    /\ RefCount = 0
    /\ deallocated = <<>> /\ callback_runs = 0

\* The guards that hold the buffer.
Held == {g \in Guards : parent_[g]}

\* C14: a guard neither leaks nor double-releases a hold.  While the
\* process runs, the holds outstanding are one per guard that holds the
\* buffer plus one per reference that a Release handed to the caller.  The
\* destructor of a guard that holds the buffer drops exactly one hold, and
\* none otherwise (after Release or Convert); Convert decrements exactly
\* once, through ConvertUsageHold, and clears the guard; Release leaves
\* usage_holds alone and hands the reference over; Acquire of a null buffer
\* leaves the guard empty and usage_holds alone.
C14_GuardHoldsExactlyOnce ==
    /\ [](usage_holds_ >= 0 /\ usage_holds_ = n_add - n_drop - n_convert)
    /\ [](Running => usage_holds_ = Cardinality(Held) + (owners - 1))
    /\ [][\A g \in Guards :
            /\ ScopedUsage_Destructor(g) =>
                  IF parent_[g]
                    THEN /\ n_convert' = n_convert
                         /\ IF fatal' = NoFatal
                              THEN /\ usage_holds_' = usage_holds_ - 1
                                   /\ n_drop' = n_drop + 1
                              ELSE UNCHANGED <<usage_holds_, n_drop>>
                    ELSE /\ fatal' = NoFatal
                         /\ UNCHANGED <<usage_holds_, n_drop, n_convert>>
            /\ ScopedUsage_Release(g) =>
                  /\ UNCHANGED <<usage_holds_, n_drop, n_convert, fatal>>
                  /\ ~parent_'[g]
                  /\ owners' = owners + (IF parent_[g] THEN 1 ELSE 0)
            /\ (/\ parent_[g] /\ fatal' = NoFatal
                /\ \E s \in Streams, e \in Events, h \in BOOLEAN :
                      ScopedUsage_Convert(g, s, e, h)) =>
                  /\ usage_holds_' = usage_holds_ - 1
                  /\ n_convert' = n_convert + 1 /\ n_drop' = n_drop
                  /\ ~parent_'[g]
            /\ (ScopedUsage_Acquire(g, FALSE) /\ fatal' = NoFatal) =>
                  (~parent_'[g] /\ UNCHANGED <<usage_holds_, n_add>>)
            /\ (ScopedUsage_Acquire(g, TRUE) /\ fatal' = NoFatal) =>
                  (parent_'[g] /\ usage_holds_' = usage_holds_ + 1)
         ]_vars

\* A guard acquired a hold, converted it and was destroyed: one decrement.
C14_Witness ==
    /\ Running
    /\ \E g \in Guards : ~guard_alive[g] /\ ~parent_[g]
    /\ n_add = 1 /\ n_convert = 1 /\ n_drop = 0
    /\ usage_holds_ = 0

LockPending == BagIn(LockCall, pending)

\* C15: finalization is live.  A blocked LockUseAndTransferUsageEvents
\* stays blocked, and the buffer in use, in every step that starts with a
\* hold outstanding (a hold that Release handed out and nobody resolves
\* blocks it for good); it returns only with usage_holds == 0, leaving
\* in_use false.  If from some point on no hold is outstanding, a blocked
\* call on a buffer in use leads to the buffer being finalized: the call
\* returns, unless another call finalized the buffer first or a failed
\* CHECK terminated the process.
C15_FinalizationLive ==
    /\ [](LockReturned => (usage_holds_ = 0 /\ ~in_use_))
    /\ [][(LockPending /\ usage_holds_ > 0) =>
             (BagIn(LockCall, pending') /\ in_use_' /\ returned'.op # LockCall.op)]_vars
    /\ (<>[](usage_holds_ = 0)) =>
          ((LockPending /\ in_use_) ~> (~in_use_ \/ ~Running))

\* A finalization that had blocked returned after the guard's hold was
\* converted or dropped.
C15_Witness ==
    /\ LockReturned /\ returned.awaited
    /\ ~in_use_ /\ usage_holds_ = 0
    /\ n_add > 0 /\ n_add = n_drop + n_convert
    /\ Held = {}

\* The elements of a sequence.
Range(v) == {v[i] : i \in 1..Len(v)}

\* C16: WaitForBufferDefinitionEventsOnStream calls WaitForEventOnStream
\* exactly once for each distinct definition event of the buffer, however
\* often the list names it, and on no other event; when it returns, every
\* definition event has been recorded and is defined on the stream: it does
\* not return while a definition event is unset.
C16_WaitsOncePerDefinitionEvent ==
    /\ waiter.active =>
          /\ NoDuplicates(waiter.called)
          /\ Range(waiter.called) \subseteq Range(definition_events_)
          /\ waiter.events \cup Range(waiter.called) = Range(definition_events_)
          /\ waiter.blocked_on = None =>
                waiter.events \cap Range(waiter.called) = {}
    /\ returned.op = "WaitForBufferDefinitionEventsOnStream" =>
          /\ NoDuplicates(returned.val)
          /\ Range(returned.val) = Range(definition_events_)
          /\ \A e \in Range(definition_events_) :
                /\ EventHasBeenRecorded(e)
                /\ InVector(returned.stream, streams_defined_on_[e])

\* The list names one event twice; the function blocked on it while it was
\* unset, and returned having waited for it once.
C16_Witness ==
    /\ returned.op = "WaitForBufferDefinitionEventsOnStream"
    /\ returned.awaited
    /\ Len(definition_events_) = 2
    /\ Len(returned.val) = 1

\* C17: FromScopedShapedBuffer makes the buffer of the source's regions in
\* their order and leaves every slot of the source null; AsShapedBuffer of
\* that buffer returns the same regions in the same order, one per slot;
\* called for a shape whose slot count differs from the region count it
\* fails a CHECK and returns nothing.
C17_ShapedRoundTrip ==
    /\ [](source_regions # <<>> =>
            /\ device_memory_ = source_regions
            /\ shaped_buffer.subshapes = Len(source_regions)
            /\ Len(shaped_buffer.buffers) = Len(source_regions)
            /\ \A i \in 1..Len(shaped_buffer.buffers) :
                  shaped_buffer.buffers[i] = NullRegion)
    /\ [](exported # NoShaped =>
            /\ exported.buffers = source_regions
            /\ exported.subshapes = Len(source_regions))
    /\ [](returned.op = "AsShapedBuffer" =>
            returned.val = source_regions /\ exported.buffers = returned.val)
    /\ [][\A slots \in SlotCounts :
            (slots # Len(device_memory_) /\ AsShapedBuffer(slots)) =>
               /\ fatal' \in {"AsShapedBuffer: CHECK(iterator != end)",
                              "AsShapedBuffer: CHECK(iterator == end)"}
               /\ exported' = exported
               /\ returned' = NoRet]_vars

\* Two different regions went from the source into the buffer and out
\* again, in the source's order, and the source's slots are null.
C17_Witness ==
    /\ returned.op = "AsShapedBuffer"
    /\ source_regions = <<2, 1>>
    /\ exported.buffers = <<2, 1>>
    /\ shaped_buffer.buffers = <<NullRegion, NullRegion>>

\* C18: whenever in_use_ is false, usage_holds_ is 0 and the buffer's own
\* usage_events_ is empty, and no step changes any of the three afterwards:
\* no operation adds a hold or a usage event after finalization.
C18_FinalizedStateStays ==
    /\ [](~in_use_ => (usage_holds_ = 0 /\ usage_events_ = <<>>))
    /\ [][~in_use_ =>
            (~in_use_' /\ UNCHANGED <<usage_holds_, usage_events_>>)]_vars

\* The buffer was finalized after holds had been converted to usage events,
\* and a later attempt to add a hold was stopped.
C18_Witness ==
    /\ ~in_use_ /\ usage_holds_ = 0 /\ usage_events_ = <<>>
    /\ n_convert > 0
    /\ \E s \in Streams : conv_hist[s].events # {}
    /\ fatal = "AddUsageHold: CHECK(in_use_)"

\* C19: every ConvertUsageHold call that passes its CHECKs takes exactly one
\* from usage_holds_, whether the event is stored or discarded; when the
\* stream has an entry, the call either replaces the entry's event and
\* reference_held flag together (the new event's sequence number is strictly
\* greater) or leaves the entry, event and flag, as it is (the new sequence
\* number is smaller or equal: the first of two equal events stays), and it
\* touches no other entry.
C19_ConvertTakesOneHoldFlagFollowsEvent ==
    \A s \in Streams, e \in Events, h \in BOOLEAN :
        LET r == ConvertUsageHoldResult(s, e, h)
        IN r.fatal = NoFatal =>
              /\ r.usage_holds = usage_holds_ - 1
              /\ r.usage_holds >= 0
              /\ \A i \in 1..Len(usage_events_) :
                    /\ i <= Len(r.usage_events)
                    /\ r.usage_events[i].stream = usage_events_[i].stream
                    /\ IF usage_events_[i].stream = s
                            /\ SeqOf(e) > SeqOf(usage_events_[i].event)
                         THEN /\ r.usage_events[i].event = e
                              /\ r.usage_events[i].reference_held = h
                         ELSE r.usage_events[i] = usage_events_[i]

\* Two events of one sequence number were converted on one stream: the
\* entry holds the first, each call took a hold, and a call with the other
\* event and the other flag would leave the entry as it is.
C19_Witness ==
    \E s \in Streams :
        /\ in_use_
        /\ Cardinality(conv_hist[s].events) = 2
        /\ \A e1 \in conv_hist[s].events, e2 \in conv_hist[s].events :
              EventHasBeenRecorded(e1) /\ SeqOf(e1) = SeqOf(e2)
        /\ n_convert = 2 /\ n_drop = 0 /\ usage_holds_ = n_add - 2
        /\ usage_holds_ > 0
        /\ Len(usage_events_) = 1
        /\ usage_events_[1].stream = s
        /\ usage_events_[1].event # conv_hist[s].last
        /\ ConvertUsageHoldResult(s, conv_hist[s].last,
                                  ~usage_events_[1].reference_held).usage_events
              = usage_events_

\* C20: the finalization hands the usage events over at most once: a
\* LockUseAndTransferUsageEvents call returns only in a step that takes
\* in_use_ from true to false, and in_use_ never becomes true again; once
\* in_use_ is false, a call that enters and a blocked call that wakes (two
\* calls had been blocked, or one was blocked while the other ran through)
\* fail the CHECK of in_use_ and return no collection.
C20_EventsHandedOverOnce ==
    /\ [][returned'.op = LockCall.op => (in_use_ /\ ~in_use_')]_vars
    /\ [][~in_use_ => ~in_use_']_vars
    /\ [][(~in_use_ /\ LockUse_Call) =>
            (fatal' = "LockUseAndTransferUsageEvents: CHECK(in_use_)"
               /\ returned' = NoRet)]_vars
    /\ [][(~in_use_ /\ LockUse_Wake) =>
            (fatal' = "LockUseAndTransferUsageEvents: CHECK(in_use_) after Await"
               /\ returned' = NoRet)]_vars
    /\ [][(~in_use_ /\ LockPending) =>
            (pending' = pending \/ fatal' # NoFatal)]_vars

\* Two calls were blocked waiting for the holds; one has woken and returned
\* the usage events, the other is still blocked.
C20_Witness ==
    /\ LockReturned /\ returned.awaited
    /\ returned.val # <<>>
    /\ ~in_use_ /\ usage_holds_ = 0
    /\ LockPending
    /\ Running

====
